---- MODULE Spec2Model ----
(***************************************************************************)
(* Model of scripts/assets-process.ts: the post-build pass that walks      *)
(* ./out, and rewrites every .html file in place (preload normalisation,   *)
(* title/description/keywords injection, Cloudflare meta tags, relocation  *)
(* of head scripts to the end of the body).                                *)
(*                                                                         *)
(* Strings that the code inspects character-wise (file paths) are          *)
(* sequences of atoms, so that split, includes and extname are computed    *)
(* and a directory such as "cfg" (atoms "cf","g") differs from the         *)
(* segment "cf" while still containing its text.  A document is the tree   *)
(* cheerio.load builds: a head and a body, each a sequence of nodes.       *)
(***************************************************************************)
EXTENDS Integers, Sequences, FiniteSets, TLC

(* ------------------------------ bounds --------------------------------- *)
MaxFiles == 3
MaxDepth == 3
MaxHead == 3
MaxBody == 1
MaxRuns == 2

(* ------------------------------ strings -------------------------------- *)
sep == "/"

RECURSIVE split(_, _)
split(s, d) ==
  IF \A i \in 1..Len(s) : s[i] # d
  THEN <<s>>
  ELSE LET k == CHOOSE i \in 1..Len(s) :
                  s[i] = d /\ \A j \in 1..(i - 1) : s[j] # d
       IN <<SubSeq(s, 1, k - 1)>> \o split(SubSeq(s, k + 1, Len(s)), d)

RECURSIVE join(_)
join(parts) ==
  IF Len(parts) = 0 THEN <<>>
  ELSE IF Len(parts) = 1 THEN parts[1]
  ELSE parts[1] \o <<sep>> \o join(Tail(parts))

includes(s, sub) ==
  \E i \in 1..(Len(s) - Len(sub) + 1) : SubSeq(s, i, i + Len(sub) - 1) = sub

\* 1-based index of the first element equal to x, 0 when there is none
findIndex(parts, x) ==
  IF \A i \in 1..Len(parts) : parts[i] # x THEN 0
  ELSE CHOOSE i \in 1..Len(parts) :
         parts[i] = x /\ \A j \in 1..(i - 1) : parts[j] # x

extname(p) ==
  IF Len(p) = 0 THEN ""
  ELSE IF p[Len(p)] = "index.html" THEN ".html"
  ELSE IF p[Len(p)] = "notes.txt" THEN ".txt"
  ELSE ""

(* ----------------------------- documents ------------------------------- *)
None == "<absent>"

El(t, n, c, r, a, x) ==
  [tag |-> t, name |-> n, content |-> c, rel |-> r, as |-> a, text |-> x]

Meta(n, c) == El("meta", n, c, None, None, None)
Link(r, a) == El("link", None, None, r, a, None)
Script(x)  == El("script", None, None, None, None, x)
Title(x)   == El("title", None, None, None, None, x)
Text(x)    == El("#text", None, None, None, None, x)
Div        == El("div", None, None, None, None, None)

Doc(h, b) == [head |-> h, body |-> b]

IsScript(n)   == n.tag = "script"
IsTitle(n)    == n.tag = "title"
IsLink(n)     == n.tag = "link"
IsPreload(n)  == n.tag = "link" /\ n.rel = "preload"
IsMetaNamed(n, nm) == n.tag = "meta" /\ n.name = nm
IsElement(n)  == n.tag # "#text"

\* all nodes of the document, in document order
Nodes(d) == d.head \o d.body


(* ------------------- translation tables (config/i18n) ------------------ *)
blockPageTranslations ==
  (<<"k1">> :> [title |-> "Access denied", message |-> "Blocked by policy"])

errorPageTranslations ==
  (<<"e1">> :> [title |-> "Server error", message |-> "Origin unreachable"])

challengePageTranslations ==
  (<<"c1">> :> [title |-> "Checking", message |-> "Verifying the browser"])

(* --------------------------- preload links ----------------------------- *)
\* $('link[rel="preload"]').each(...) over one sequence of nodes
\* mutant: the style branch without removeAttr("as")
RECURSIVE eachPreloadKeepAs(_)
eachPreloadKeepAs(s) ==
  IF s = <<>> THEN <<>>
  ELSE LET n == Head(s)
           r == IF ~IsPreload(n) THEN <<n>>
                ELSE IF n.as = "style" THEN <<[n EXCEPT !.rel = "stylesheet"]>>
                ELSE IF n.as = "font" THEN <<>>
                ELSE <<n>>
       IN r \o eachPreloadKeepAs(Tail(s))

RECURSIVE eachPreload(_)
eachPreload(s) ==
  IF s = <<>> THEN <<>>
  ELSE LET n == Head(s)
           r == IF ~IsPreload(n) THEN <<n>>
                ELSE IF n.as = "style"
                       THEN <<[n EXCEPT !.rel = "stylesheet", !.as = None]>>
                ELSE IF n.as = "font" THEN <<>>
                ELSE <<n>>
       IN r \o eachPreload(Tail(s))

normalizePreloads(d) == Doc(eachPreload(d.head), eachPreload(d.body))

(* ------------------------------ updateTDK ------------------------------ *)
setTitleText(n, t) == IF IsTitle(n) THEN [n EXCEPT !.text = t] ELSE n

setDescription(n, c) ==
  IF IsMetaNamed(n, "description") THEN [n EXCEPT !.content = c] ELSE n

IsDescription(n) == IsMetaNamed(n, "description")
IsKeywords(n)    == IsMetaNamed(n, "keywords")

\* selection.length > 0, the selection taken over the whole document
HasDescription(d) == \E k \in 1..Len(Nodes(d)) : IsDescription(Nodes(d)[k])
HasKeywords(d)    == \E k \in 1..Len(Nodes(d)) : IsKeywords(Nodes(d)[k])

DefaultKeywords == "Cloudflare, security, WAF, protection"

\* mutant: the block table consulted whatever the category segment
lookupTDKAnyDirectory(directory, type) ==
  IF type \in DOMAIN blockPageTranslations
    THEN blockPageTranslations[type]
  ELSE IF directory = <<"error">> /\ type \in DOMAIN errorPageTranslations
    THEN errorPageTranslations[type]
  ELSE IF directory = <<"challenge">> /\ type \in DOMAIN challengePageTranslations
    THEN challengePageTranslations[type]
  ELSE [title |-> "", message |-> ""]

\* the {title, message} pair the path selects, "" for both when none
lookupTDK(directory, type) ==
  IF directory = <<"block">> /\ type \in DOMAIN blockPageTranslations
    THEN blockPageTranslations[type]
  ELSE IF directory = <<"error">> /\ type \in DOMAIN errorPageTranslations
    THEN errorPageTranslations[type]
  ELSE IF directory = <<"challenge">> /\ type \in DOMAIN challengePageTranslations
    THEN challengePageTranslations[type]
  ELSE [title |-> "", message |-> ""]

setTitle(d, pageTitle) ==
  IF pageTitle = "" THEN d
  ELSE [head |-> [k \in 1..Len(d.head) |->
                    setTitleText(d.head[k], pageTitle \o " - Cloudflare")],
        body |-> [k \in 1..Len(d.body) |->
                    setTitleText(d.body[k], pageTitle \o " - Cloudflare")]]

setOrAddDescription(d, pageDescription) ==
  IF pageDescription = "" THEN d
  ELSE IF HasDescription(d)
    THEN [head |-> [k \in 1..Len(d.head) |->
                      setDescription(d.head[k], pageDescription)],
          body |-> [k \in 1..Len(d.body) |->
                      setDescription(d.body[k], pageDescription)]]
  ELSE [d EXCEPT !.head = Append(@, Meta("description", pageDescription))]

\* mutant: the keywords tag appended without looking for an existing one
addKeywordsAlways(d) ==
  [d EXCEPT !.head = Append(@, Meta("keywords", DefaultKeywords))]

addKeywords(d) ==
  IF HasKeywords(d) THEN d
  ELSE [d EXCEPT !.head = Append(@, Meta("keywords", DefaultKeywords))]

injectTDK(d, page) ==
  addKeywords(setOrAddDescription(setTitle(d, page.title), page.message))

selectTDK(d, pathParts, cfIndex) ==
  IF cfIndex = 0 \/ cfIndex + 1 >= Len(pathParts) THEN d
  ELSE injectTDK(d, lookupTDK(pathParts[cfIndex + 1], pathParts[cfIndex + 2]))

updateTDK(d, filePath) ==
  selectTDK(d, split(filePath, sep), findIndex(split(filePath, sep), <<"cf">>))

(* ------------------------ addCloudflareMetaTags ------------------------ *)
\* package.json: absent, not JSON, or JSON with or without a version field
readVersion(m) ==
  IF m.state = "ok" /\ m.version # None THEN m.version ELSE "unknown"

toISOString(t) == ToString(t)

CloudflareTags(version, buildDate) ==
  << Text("ws"), Meta("client-ip", "::CLIENT_IP::"),
     Text("ws"), Meta("ray-id", "::RAY_ID::"),
     Text("ws"), Meta("location-code", "::GEO::"),
     Text("ws"), Meta("build-date", buildDate),
     Text("ws"), Meta("version", version),
     Text("ws") >>

\* mutant: append in place of prepend
addCloudflareMetaTagsAppend(d, m, t) ==
  Doc(d.head \o CloudflareTags(readVersion(m), toISOString(t)), d.body)

addCloudflareMetaTags(d, m, t) ==
  Doc(CloudflareTags(readVersion(m), toISOString(t)) \o d.head, d.body)

(* ---------------------- moveScriptsToBodyBottom ------------------------ *)
NotScript(n) == ~IsScript(n)

\* mutant: prepend in place of append
moveScriptsToBodyTop(d) ==
  LET headScripts == SelectSeq(d.head, IsScript)
  IN IF Len(headScripts) = 0 THEN d
     ELSE Doc(SelectSeq(d.head, NotScript), headScripts \o d.body)

\* mutant: the scripts copied into the body and left in the head
moveScriptsCopy(d) ==
  LET headScripts == SelectSeq(d.head, IsScript)
  IN IF Len(headScripts) = 0 THEN d
     ELSE Doc(d.head, d.body \o headScripts)

moveScriptsToBodyBottom(d) ==
  LET headScripts == SelectSeq(d.head, IsScript)
  IN IF Len(headScripts) = 0 THEN d
     ELSE Doc(SelectSeq(d.head, NotScript), d.body \o headScripts)

(* ------------------------------- state --------------------------------- *)
VARIABLES
  outExists,  \* fs.existsSync("./out")
  files,      \* the files under ./out, in directory-traversal order
  manifest,   \* ../package.json as readVersion finds it
  now,        \* the clock new Date() reads
  pc,         \* position of main: "start", "loop", "done"
  htmlFiles,  \* main's list of discovered paths
  idx,        \* main's position in htmlFiles
  console,    \* lines logged by this run
  run,        \* number of the current invocation of the script
  stages,     \* per file: the document after each edit of its last processing
  passes,     \* per file: how many times it has been written
  orig        \* files as they were before the first run

vars == << outExists, files, manifest, now, pc, htmlFiles, idx, console, run,
           stages, passes, orig >>

Line(level, msg, path) == [level |-> level, msg |-> msg, path |-> path]

NoStage(d) ==
  [ran |-> FALSE, wrote |-> FALSE, html |-> d, preload |-> d, tdk |-> d,
   cf |-> d, moved |-> d]

fileAt(filePath) == CHOOSE i \in 1..Len(files) : files[i].path = filePath

IsHtml(f) == extname(f.path) = ".html"

\* the recursive walk, on a tree already listed in traversal order
getAllHtmlFiles(tree) ==
  [k \in 1..Len(SelectSeq(tree, IsHtml)) |-> SelectSeq(tree, IsHtml)[k].path]

cfDir == join(<< <<"out">>, <<"cf">> >>)

(* --------------------------- processHtmlFile --------------------------- *)
\* the four edits in order, each stage of the document kept
editPreload(st) == [st EXCEPT !.preload = normalizePreloads(st.html)]

editTDK(st, filePath) == [st EXCEPT !.tdk = updateTDK(st.preload, filePath)]

editCloudflare(st, filePath) ==
  [st EXCEPT !.cf = IF includes(filePath, cfDir)
                      THEN addCloudflareMetaTags(st.tdk, manifest, now)
                      ELSE st.tdk]

editScripts(st) == [st EXCEPT !.moved = moveScriptsToBodyBottom(st.cf)]

edits(html, filePath) ==
  editScripts(editCloudflare(editTDK(editPreload(
    [NoStage(html) EXCEPT !.ran = TRUE]), filePath), filePath))

failed(i, filePath, st) ==
  [files |-> files,
   console |-> Append(console, Line("error", "Error processing", filePath)),
   stages |-> [stages EXCEPT ![i] = st],
   wrote |-> FALSE, threw |-> FALSE]

\* mutant: no try/catch, a failure leaves the function as an exception
tryProcessRethrow(i, filePath, st) ==
  IF ~files[i].readable \/ ~files[i].writable
    THEN [files |-> files, console |-> console,
          stages |-> [stages EXCEPT ![i] = [NoStage(files[i].doc) EXCEPT !.ran = TRUE]],
          wrote |-> FALSE, threw |-> TRUE]
  ELSE [files |-> [files EXCEPT ![i].doc = st.moved],
        console |-> Append(console, Line("log", "Processed", filePath)),
        stages |-> [stages EXCEPT ![i] = [st EXCEPT !.wrote = TRUE]],
        wrote |-> TRUE, threw |-> FALSE]

\* The outcome of one call: the files, the console and the stages after it,
\* and whether an exception left the function.
tryProcess(i, filePath, st) ==
  IF ~files[i].readable
    THEN failed(i, filePath, [NoStage(files[i].doc) EXCEPT !.ran = TRUE])
  ELSE IF ~files[i].writable
    THEN failed(i, filePath, st)
  ELSE [files |-> [files EXCEPT ![i].doc = st.moved],
        console |-> Append(console, Line("log", "Processed", filePath)),
        stages |-> [stages EXCEPT ![i] = [st EXCEPT !.wrote = TRUE]],
        wrote |-> TRUE, threw |-> FALSE]

processHtmlFile(filePath) ==
  tryProcess(fileAt(filePath), filePath,
             edits(files[fileAt(filePath)].doc, filePath))

(* -------------------------------- main --------------------------------- *)
\* mutant: the error logged without the return
MainAbortFallsThrough ==
  /\ pc = "start"
  /\ ~outExists
  /\ console' = Append(console, Line("error", "Directory ./out does not exist", <<>>))
  /\ htmlFiles' = <<>>
  /\ idx' = 1
  /\ pc' = "loop"
  /\ UNCHANGED << outExists, files, manifest, now, run, stages, passes, orig >>

MainAbort ==
  /\ pc = "start"
  /\ ~outExists
  /\ console' = Append(console, Line("error", "Directory ./out does not exist", <<>>))
  /\ pc' = "done"
  /\ UNCHANGED << outExists, files, manifest, now, htmlFiles, idx, run,
                  stages, passes, orig >>

MainDiscover ==
  /\ pc = "start"
  /\ outExists
  /\ htmlFiles' = getAllHtmlFiles(files)
  /\ idx' = 1
  /\ pc' = "loop"
  /\ UNCHANGED << outExists, files, manifest, now, console, run, stages,
                  passes, orig >>

\* one iteration of the for loop, inside main's try block
iterate(i, r) ==
  /\ files' = r.files
  /\ stages' = r.stages
  /\ passes' = [passes EXCEPT ![i] = IF r.wrote THEN @ + 1 ELSE @]
  /\ IF r.threw
       THEN /\ console' = Append(r.console, Line("error", "Error:", <<>>))
            /\ pc' = "done"
            /\ idx' = idx
       ELSE /\ console' = r.console
            /\ pc' = pc
            /\ idx' = idx + 1

MainLoop ==
  /\ pc = "loop"
  /\ idx <= Len(htmlFiles)
  /\ iterate(fileAt(htmlFiles[idx]), processHtmlFile(htmlFiles[idx]))
  /\ now' = now + 1
  /\ UNCHANGED << outExists, manifest, htmlFiles, run, orig >>

MainFinish ==
  /\ pc = "loop"
  /\ idx > Len(htmlFiles)
  /\ console' = Append(console, Line("log", "All files processed successfully!", <<>>))
  /\ pc' = "done"
  /\ UNCHANGED << outExists, files, manifest, now, htmlFiles, idx, run,
                  stages, passes, orig >>

\* the build step is invoked again on the tree the previous run left
Rerun ==
  /\ pc = "done"
  /\ run < MaxRuns
  /\ run' = run + 1
  /\ pc' = "start"
  /\ console' = <<>>
  /\ htmlFiles' = <<>>
  /\ idx' = 1
  /\ stages' = [i \in 1..Len(files) |-> NoStage(files[i].doc)]
  /\ UNCHANGED << outExists, files, manifest, now, passes, orig >>

Next == MainAbort \/ MainDiscover \/ MainLoop \/ MainFinish \/ Rerun

(* ------------------------------- inputs -------------------------------- *)
SeqsUpTo(S, n) == UNION { [1..k -> S] : k \in 0..n }

Path(dirs, file) == join(<< <<"out">> >> \o dirs \o << <<file>> >>)

File(p, d, r, w) == [path |-> p, doc |-> d, readable |-> r, writable |-> w]

Manifests ==
  { [state |-> "missing", version |-> None],
    [state |-> "corrupt", version |-> None],
    [state |-> "ok", version |-> None],
    [state |-> "ok", version |-> "1.4.2"] }

InitWith(Paths, Docs, Flags, Ms, maxFiles) ==
  /\ outExists \in BOOLEAN
  /\ \E n \in 0..maxFiles :
       /\ outExists \/ n = 0
       /\ files \in [1..n -> { File(p, d, fl[1], fl[2]) :
                                 p \in Paths, d \in Docs, fl \in Flags }]
  /\ \A i, j \in 1..Len(files) : files[i].path = files[j].path => i = j
  /\ manifest \in Ms
  /\ now = 1
  /\ pc = "start"
  /\ htmlFiles = <<>>
  /\ idx = 1
  /\ console = <<>>
  /\ run = 1
  /\ stages = [i \in 1..Len(files) |-> NoStage(files[i].doc)]
  /\ passes = [i \in 1..Len(files) |-> 0]
  /\ orig = files

AllFlags == { <<TRUE, TRUE>>, <<FALSE, TRUE>>, <<TRUE, FALSE>> }

\* a run over several files, some of which cannot be read or written
RunPaths ==
  { Path(<<>>, "index.html"),
    Path(<< <<"cf">>, <<"block">>, <<"k1">> >>, "index.html"),
    Path(<< <<"x">> >>, "index.html"),
    Path(<<>>, "notes.txt") }

RunDocs ==
  { Doc(<<Title("Home"), Link("preload", "font"), Script("a")>>, <<Div>>),
    Doc(<<>>, <<Script("c")>>) }

Init == InitWith(RunPaths, RunDocs, AllFlags,
                 { m \in Manifests : m.version # None }, MaxFiles)

Spec == Init /\ [][Next]_vars

\* one file, every document up to the bounds
HeadNodes ==
  { Link("preload", "style"), Link("preload", "font"), Link("preload", "image"),
    Link("preload", None), Script("a"), Script("b") }

BodyNodes == { Script("c"), Div, Link("preload", "font") }

AllDocs ==
  { Doc(h, b) : h \in SeqsUpTo(HeadNodes, MaxHead), b \in SeqsUpTo(BodyNodes, MaxBody) }

DocPaths ==
  { Path(<<>>, "index.html"),
    Path(<< <<"cf">>, <<"block">>, <<"k1">> >>, "index.html") }

InitDoc == InitWith(DocPaths, AllDocs, { <<TRUE, TRUE>> },
                    { m \in Manifests : m.version # None }, 1)

SpecDoc == InitDoc /\ [][Next]_vars

\* one file, every path up to the bounds
DirSegs ==
  { <<"cf">>, <<"cf", "g">>, <<"block">>, <<"error">>, <<"challenge">>,
    <<"k1">>, <<"e1">>, <<"c1">>, <<"x">> }

AllPaths == { Path(dirs, "index.html") : dirs \in SeqsUpTo(DirSegs, MaxDepth) }

PathDocs ==
  { Doc(<<>>, <<Div>>),
    Doc(<<Title("Home"), Meta("description", "old"), Meta("keywords", "kw"),
          Script("a")>>, <<Div>>) }

InitPath == InitWith(AllPaths, PathDocs, { <<TRUE, TRUE>> }, Manifests, 1)

SpecPath == InitPath /\ [][Next]_vars

(* ------------------------- properties: helpers ------------------------- *)
Files == 1..Len(files)

Usable(i) == IsHtml(files[i]) /\ files[i].readable /\ files[i].writable

\* file i went through the four edits in this run
Edited(i) == stages[i].ran /\ files[i].readable

Scripts(s) == SelectSeq(s, IsScript)
Links(s)   == SelectSeq(s, IsLink)
NotLink(n) == ~IsLink(n)

IsFontPreload(n)  == IsPreload(n) /\ n.as = "font"
IsStylePreload(n) == IsPreload(n) /\ n.as = "style"
Survives(n)       == IsLink(n) /\ ~IsFontPreload(n)

SuccessLine == Line("log", "All files processed successfully!", <<>>)
NoDirLine   == Line("error", "Directory ./out does not exist", <<>>)

InConsole(l) == \E k \in 1..Len(console) : console[k] = l

(* ------------------------------- C1 ------------------------------------ *)
\* C1: when a run over an existing ./out has ended, every discovered file
\* was attempted, every file that can be read and written holds its
\* transformed document and was logged as processed, every other file was
\* logged as an error with its path, and the run ended with the success
\* message: a failing file, wherever it is in the list, stops nothing.
C1_FailureDoesNotStopRun ==
  (pc = "done" /\ outExists) =>
    /\ \A i \in Files : IsHtml(files[i]) => stages[i].ran
    /\ \A i \in Files : Usable(i) =>
          /\ stages[i].wrote
          /\ files[i].doc = stages[i].moved
          /\ InConsole(Line("log", "Processed", files[i].path))
    /\ \A i \in Files : (IsHtml(files[i]) /\ ~Usable(i)) =>
          /\ ~stages[i].wrote
          /\ InConsole(Line("error", "Error processing", files[i].path))
    /\ console[Len(console)] = SuccessLine

\* a failing file with files written before and after it
C1_Witness ==
  /\ pc = "done"
  /\ \E i, j, k \in Files :
       /\ i < j /\ j < k
       /\ stages[i].wrote /\ stages[k].wrote
       /\ IsHtml(files[j]) /\ ~files[j].readable
       /\ files[k].doc # orig[k].doc

(* ------------------------------- C2 ------------------------------------ *)
\* C2: when ./out does not exist, the run ends having logged the one error
\* line and nothing else: no file discovered, attempted or written, and no
\* success message.
C2_MissingRootAborts ==
  (pc = "done" /\ ~outExists) =>
    /\ console = <<NoDirLine>>
    /\ htmlFiles = <<>>
    /\ files = orig
    /\ \A i \in Files : ~stages[i].ran
    /\ ~InConsole(SuccessLine)

C2_Witness == pc = "done" /\ ~outExists /\ console = <<NoDirLine>>

(* ------------------------------- C3 ------------------------------------ *)
\* C3: for every edited document, with N scripts in the head before script
\* relocation: if N = 0 relocation leaves the document as it is; otherwise
\* the head has no script afterwards, the body is the old body followed by
\* the N head scripts in their order, so that the body's scripts are the
\* old body scripts followed by the head scripts; and that is the document
\* written.
C3_HeadScriptsMoveToBodyEnd ==
  \A i \in Files : Edited(i) =>
    /\ Len(Scripts(stages[i].cf.head)) = 0 => stages[i].moved = stages[i].cf
    /\ Len(Scripts(stages[i].cf.head)) >= 1 =>
          /\ Scripts(stages[i].moved.head) = <<>>
          /\ Len(stages[i].moved.body) =
                Len(stages[i].cf.body) + Len(Scripts(stages[i].cf.head))
          /\ \A k \in 1..Len(stages[i].cf.body) :
                stages[i].moved.body[k] = stages[i].cf.body[k]
          /\ \A k \in 1..Len(Scripts(stages[i].cf.head)) :
                stages[i].moved.body[Len(stages[i].cf.body) + k] =
                  Scripts(stages[i].cf.head)[k]
          /\ Scripts(stages[i].moved.body) =
                Scripts(stages[i].html.body) \o Scripts(stages[i].html.head)
    /\ stages[i].wrote => files[i].doc = stages[i].moved

\* two different head scripts moved behind a body script
C3_Witness ==
  \E i \in Files :
    /\ stages[i].wrote
    /\ Len(Scripts(stages[i].html.body)) >= 1
    /\ Len(Scripts(stages[i].html.head)) >= 2
    /\ Scripts(stages[i].html.head)[1] # Scripts(stages[i].html.head)[2]
    /\ Scripts(files[i].doc.head) = <<>>

(* ------------------------------- C4 ------------------------------------ *)
\* C4: for every edited document, after preload normalisation no font
\* preload is left; the links left are, in order, the links of the input
\* that are not font preloads, each style preload now with relation
\* "stylesheet" and no as attribute and every other link exactly as it was;
\* nothing but links is touched; and the written document has these links.
C4_PreloadNormalised ==
  \A i \in Files : Edited(i) =>
    /\ \A k \in 1..Len(Nodes(stages[i].preload)) :
          ~IsFontPreload(Nodes(stages[i].preload)[k])
    /\ Len(Links(Nodes(stages[i].preload))) =
          Len(SelectSeq(Nodes(stages[i].html), Survives))
    /\ \A k \in 1..Len(SelectSeq(Nodes(stages[i].html), Survives)) :
          IF IsStylePreload(SelectSeq(Nodes(stages[i].html), Survives)[k])
            THEN Links(Nodes(stages[i].preload))[k] = Link("stylesheet", None)
            ELSE Links(Nodes(stages[i].preload))[k] =
                   SelectSeq(Nodes(stages[i].html), Survives)[k]
    /\ SelectSeq(stages[i].preload.head, NotLink) =
          SelectSeq(stages[i].html.head, NotLink)
    /\ SelectSeq(stages[i].preload.body, NotLink) =
          SelectSeq(stages[i].html.body, NotLink)
    /\ Links(Nodes(stages[i].moved)) = Links(Nodes(stages[i].preload))

\* a style, a font and an image preload in one document, written
C4_Witness ==
  \E i \in Files :
    /\ stages[i].wrote
    /\ run = 1
    /\ Links(Nodes(orig[i].doc)) =
         <<Link("preload", "style"), Link("preload", "font"), Link("preload", "image")>>
    /\ Links(Nodes(files[i].doc)) =
         <<Link("stylesheet", None), Link("preload", "image")>>

(* ---------------------- properties: path helpers ----------------------- *)
Parts(i)  == split(files[i].path, sep)
Marker(i) == findIndex(Parts(i), <<"cf">>)

MarkerAbsent(i) == Marker(i) = 0
TooShort(i)     == Marker(i) # 0 /\ Len(Parts(i)) - Marker(i) < 2
Category(i)     == Parts(i)[Marker(i) + 1]
Type(i)         == Parts(i)[Marker(i) + 2]

BadCategory(i) ==
  /\ ~MarkerAbsent(i) /\ ~TooShort(i)
  /\ Category(i) \notin { <<"block">>, <<"error">>, <<"challenge">> }

BadType(i) ==
  /\ ~MarkerAbsent(i) /\ ~TooShort(i)
  /\ \/ Category(i) = <<"block">> /\ Type(i) \notin DOMAIN blockPageTranslations
     \/ Category(i) = <<"error">> /\ Type(i) \notin DOMAIN errorPageTranslations
     \/ Category(i) = <<"challenge">> /\ Type(i) \notin DOMAIN challengePageTranslations

BlockKeyPath(i) ==
  /\ ~MarkerAbsent(i) /\ ~TooShort(i)
  /\ Category(i) = <<"block">>
  /\ Type(i) \in DOMAIN blockPageTranslations

\* a segment "out" immediately followed by a segment "cf"
HasCfDir(i) ==
  \E k \in 1..(Len(Parts(i)) - 1) :
    Parts(i)[k] = <<"out">> /\ Parts(i)[k + 1] = <<"cf">>

Titles(d)       == SelectSeq(Nodes(d), IsTitle)
Descriptions(d) == SelectSeq(Nodes(d), IsDescription)
Keywords(d)     == SelectSeq(Nodes(d), IsKeywords)
HeadElements(d) == SelectSeq(d.head, IsElement)

(* ------------------------------- C5 ------------------------------------ *)
\* C5: for every written document whose path has the marker segment "cf"
\* followed by "block" and a key of the block table, the document has a
\* title, every title reads "<translated title> - Cloudflare", and it has
\* a description meta tag, every one with the translated message.
C5_BlockTitleAndDescription ==
  \A i \in Files : (stages[i].wrote /\ BlockKeyPath(i)) =>
    /\ Titles(files[i].doc) # <<>>
    /\ \A k \in 1..Len(Titles(files[i].doc)) :
          Titles(files[i].doc)[k].text =
            blockPageTranslations[Type(i)].title \o " - Cloudflare"
    /\ Descriptions(files[i].doc) # <<>>
    /\ \A k \in 1..Len(Descriptions(files[i].doc)) :
          Descriptions(files[i].doc)[k].content =
            blockPageTranslations[Type(i)].message

(* ------------------------------- C6 ------------------------------------ *)
\* C6 as stated: every edited document without a keywords tag ends with
\* exactly one, of the default content, and every edited document with
\* keywords tags keeps them as they were.
C6_KeywordsForEveryDocument ==
  \A i \in Files : Edited(i) =>
    /\ Keywords(stages[i].html) = <<>> =>
          Keywords(stages[i].moved) = <<Meta("keywords", DefaultKeywords)>>
    /\ Keywords(stages[i].html) # <<>> =>
          Keywords(stages[i].moved) = Keywords(stages[i].html)

\* C6 amended: the same for every edited document whose path has the
\* marker segment "cf" with at least two segments after it, whether or not
\* the lookup finds an entry; for every other path the keywords tags are
\* as they were (none is added).
C6_KeywordsWhenMarkerPresent ==
  \A i \in Files : Edited(i) =>
    IF MarkerAbsent(i) \/ TooShort(i)
      THEN Keywords(stages[i].moved) = Keywords(stages[i].html)
      ELSE /\ Keywords(stages[i].html) = <<>> =>
                Keywords(stages[i].moved) = <<Meta("keywords", DefaultKeywords)>>
           /\ Keywords(stages[i].html) # <<>> =>
                Keywords(stages[i].moved) = Keywords(stages[i].html)

\* the lookup fails and the default keywords tag is added all the same
C6_Witness ==
  \E i \in Files :
    /\ stages[i].wrote
    /\ BadType(i)
    /\ Keywords(stages[i].html) = <<>>
    /\ Keywords(files[i].doc) = <<Meta("keywords", DefaultKeywords)>>

(* ------------------------------- C7 ------------------------------------ *)
\* C7: for every edited file whose path has the segments "out", "cf", the
\* first five elements of the head of the result are the client-ip, ray-id,
\* location-code, build-date and version meta tags in that order (so ahead
\* of any description or keywords tag); the version is the manifest's
\* version when it has one and "unknown" when the manifest is missing or
\* unparsable; and the file, if it can be read and written, is written
\* with that result whatever the state of the manifest.
C7_PlatformTagsFirst ==
  \A i \in Files : (Edited(i) /\ HasCfDir(i)) =>
    /\ Len(HeadElements(stages[i].moved)) >= 5
    /\ HeadElements(stages[i].moved)[1] = Meta("client-ip", "::CLIENT_IP::")
    /\ HeadElements(stages[i].moved)[2] = Meta("ray-id", "::RAY_ID::")
    /\ HeadElements(stages[i].moved)[3] = Meta("location-code", "::GEO::")
    /\ IsMetaNamed(HeadElements(stages[i].moved)[4], "build-date")
    /\ HeadElements(stages[i].moved)[4].content # None
    /\ IsMetaNamed(HeadElements(stages[i].moved)[5], "version")
    /\ (manifest.state = "ok" /\ manifest.version # None) =>
          HeadElements(stages[i].moved)[5].content = manifest.version
    /\ manifest.state \in {"missing", "corrupt"} =>
          HeadElements(stages[i].moved)[5].content = "unknown"
    /\ Usable(i) => (stages[i].wrote /\ files[i].doc = stages[i].moved)

\* an unparsable manifest, a description added by updateTDK behind the tags
C7_Witness ==
  \E i \in Files :
    /\ stages[i].wrote
    /\ HasCfDir(i)
    /\ manifest.state = "corrupt"
    /\ Descriptions(stages[i].html) = <<>>
    /\ Len(HeadElements(files[i].doc)) >= 7
    /\ HeadElements(files[i].doc)[5] = Meta("version", "unknown")
    /\ IsDescription(HeadElements(files[i].doc)[6])

(* ------------------------------- C8 ------------------------------------ *)
\* C8: for every edited file whose path has no segment "out" immediately
\* followed by a segment "cf", the platform meta tags are not inserted.
C8_TagsOnlyUnderCfDirectory ==
  \A i \in Files : (Edited(i) /\ ~HasCfDir(i)) => stages[i].cf = stages[i].tdk

(* ------------------------------- C9 ------------------------------------ *)
\* C9: for every edited file whose path selects no translation entry (no
\* marker segment, fewer than two segments after it, a category that is
\* none of block, error, challenge, or a type that is no key of the
\* category's table) the titles and description tags of the result are
\* those of the input; in the first two cases updateTDK changes nothing
\* and the keywords tags are those of the input as well.
C9_NoEntryNoTitleChange ==
  \A i \in Files : Edited(i) =>
    /\ (MarkerAbsent(i) \/ TooShort(i) \/ BadCategory(i) \/ BadType(i)) =>
          /\ Titles(stages[i].moved) = Titles(stages[i].html)
          /\ Descriptions(stages[i].moved) = Descriptions(stages[i].html)
    /\ (MarkerAbsent(i) \/ TooShort(i)) =>
          /\ stages[i].tdk = stages[i].preload
          /\ Keywords(stages[i].moved) = Keywords(stages[i].html)

\* a known block key under a category that is none of the three
C9_Witness ==
  \E i \in Files :
    /\ stages[i].wrote
    /\ BadCategory(i)
    /\ Type(i) \in DOMAIN blockPageTranslations
    /\ Titles(files[i].doc) = <<Title("Home")>>
    /\ Descriptions(files[i].doc) = <<Meta("description", "old")>>

(* ------------------------------- C10 ----------------------------------- *)
Relocated(d) == moveScriptsToBodyBottom(normalizePreloads(d))

IsLinkOrScript(n) == IsLink(n) \/ IsScript(n)

LinksAndScripts(d) ==
  [head |-> SelectSeq(d.head, IsLinkOrScript),
   body |-> SelectSeq(d.body, IsLinkOrScript)]

\* C10: a document that has been through preload normalisation and script
\* relocation is left unchanged by a second application of the two; and a
\* file written by a later run has the links and scripts, in the places
\* and order, that the previous run left.
C10_RelocationIdempotent ==
  \A i \in Files :
    /\ Relocated(Relocated(files[i].doc)) = Relocated(files[i].doc)
    /\ (passes[i] >= 2 /\ stages[i].wrote) =>
          LinksAndScripts(stages[i].moved) = LinksAndScripts(stages[i].html)

\* second run over a file that had a head script, a style and a font preload
C10_Witness ==
  \E i \in Files :
    /\ passes[i] >= 2 /\ stages[i].wrote
    /\ Scripts(orig[i].doc.head) # <<>>
    /\ \E k \in 1..Len(orig[i].doc.head) : IsStylePreload(orig[i].doc.head[k])
    /\ \E k \in 1..Len(orig[i].doc.head) : IsFontPreload(orig[i].doc.head[k])
    /\ LinksAndScripts(files[i].doc) # LinksAndScripts(orig[i].doc)

====
